---- MODULE Spec2Model ----
(***************************************************************************)
(* The workflow of deep-sql-copilot for one session (one LangGraph         *)
(* thread_id): the StateGraph built by get_sql_copilot, its six nodes,     *)
(* its three routers, and process_chat, which starts or resumes a run on   *)
(* the shared checkpointer.                                                *)
(*                                                                         *)
(* The DeepState fields are the channel values of the thread's checkpoint. *)
(* One node execution is one action; graph.invoke is the sequence of node  *)
(* actions between StartRun/Resume and Return/RaiseRecursion/an interrupt. *)
(* The collaborators (LLM calls, SQL execution, the user) are              *)
(* nondeterministic choices over small sets of abstract values.            *)
(*                                                                         *)
(* Spec is a session served through process_chat, SpecStream the same      *)
(* session served through stream_chat with the events it yields, SpecWeb   *)
(* the web application's concurrent requests of several sessions, where a  *)
(* call is seen as its accesses to the shared checkpointer.                *)
(***************************************************************************)
EXTENDS Integers, Sequences, FiniteSets, TLC

VARIABLES
    \* ---- DeepState (src/node/deep_state.py), the thread's channel values
    user_input,       \* the query of the run
    intent_type,      \* "query" | "analyze" | "other"
    intent_ambiguous, \* ordered dict: sequence of [key, value], value None when unresolved
    final_sql,        \* current candidate SQL ("" when none)
    query_data,       \* markdown of the last successful execution ("" when none)
    answer,           \* final answer ("" when none)
    cnt,              \* execution attempt counter
    messages,         \* transcript: sequence of [role, content]
    \* ---- engine (langgraph thread + process_chat)
    next,             \* node to run next, "END" when the graph finished, "none" before a run
    status,           \* "idle" | "running" | "returned"
    outcome,          \* what the last process_chat call gave its caller ("none" while it runs)
    question,         \* the prompt that call returned, "" when none
    interrupted,      \* the thread holds a pending interrupt of query_analyze
    resume_values,    \* resume values delivered so far to the pending query_analyze task
    clarified,        \* analyze_query's own state.intent_ambiguous after its clarification loop
    suspended,        \* <<state>> the checkpoint held when the pending interrupt was raised
    api,              \* the entry point the session's caller uses: process_chat or stream_chat
    events,           \* the events stream_chat has yielded in the current call
    final_state,      \* stream_chat's local final_state: None, a node's update or an interrupt
    calls,            \* calls of stream_chat that reached the graph so far
    raised,           \* an exception was raised inside the current call
    checkpoints,      \* the shared InMemorySaver: thread_id -> what the thread holds
    session_states,   \* web_app.session_states: session -> waiting_for_input
    requests,         \* the requests of /api/chat/stream and where each one is
    chat_history,     \* session['chat_history']: the number of its entries, per session
    \* ---- src/data/knowledge_manager.py: the process-wide Milvus client
    client,           \* the module's global: NoClient or the instance stored last
    constructed,      \* MilvusClient instances constructed so far
    callers,          \* the threads calling get_milvus_client and where each one is
    steps,            \* node executions (super-steps) of the current graph.invoke
    \* ---- history of the current run (observations, never read by the program)
    runs,             \* runs started in this session
    analyze_calls,    \* analysis collaborator calls of the run
    executed,         \* stages that ran in the current run
    executions,       \* SQL executions of the run
    failed_execs,     \* failed SQL executions of the run
    repair_calls,     \* invocations of the repair collaborator in the run
    repairs_all_sql,  \* every repair call of the run so far returned corrected SQL
    repair_state,     \* result of the last fix_sql execution (sub-machine state)
    entry_log         \* one record per task of query_analyze: unresolved at entry, prompts raised

vars == <<user_input, intent_type, intent_ambiguous, final_sql, query_data, answer, cnt, messages,
          next, status, outcome, question, interrupted, resume_values, clarified, suspended,
          api, events, final_state, calls, raised, checkpoints, session_states, requests,
          chat_history, client, constructed, callers,
          steps, runs, analyze_calls, executed, executions, failed_execs, repair_calls,
          repairs_all_sql, repair_state, entry_log>>

state_vars == <<user_input, intent_type, intent_ambiguous, final_sql, query_data, answer, cnt,
               messages>>
call_vars == <<api, events, final_state, calls, raised>>
web_vars == <<checkpoints, session_states, requests, chat_history>>
milvus_vars == <<client, constructed, callers>>
history_vars == <<runs, analyze_calls, executed, executions, failed_execs, repair_calls,
                  repairs_all_sql, repair_state, entry_log>>

----------------------------------------------------------------------------
\* Bounds of the model
MaxRuns == 2          \* runs started per session
MaxAnalyze == 3       \* analysis collaborator calls per run that may add ambiguities
MaxStreamCalls == 2   \* calls of stream_chat per session that reach the graph
MaxRequests == 3      \* requests the web application receives
MaxCallers == 3       \* threads that call get_milvus_client

\* Program constants
MaxAttempts == 10     \* sql_fix.py: if state.cnt > 10
RecursionLimit == 25  \* langgraph's default recursion_limit, process_chat passes none
StreamRecursionLimit == 100  \* stream_chat's config: "recursion_limit": 100

None == "None"
END == "END"
ExhaustionMsg == "SQL_FIX_TOO_MANY_ATTEMPTS"
InvalidSqlMsg == "NO_VALID_SQL"

Topics == {"t1", "t2"}
ResumeInputs == {"v1", "v2"}
Queries == {"show sales", " ", ""}
\* what the analysis collaborator may return as result.intent_ambiguous
AmbiguousLists == {<<>>, <<"t1">>, <<"t1", "t2">>}
CannotAnswers == {"", "ca1", "ca2"}
\* result_text of the intent classifier, after _extract_response_text
IntentTexts == {"query", "analyze", "Query.", "a long reply about the query", "hello", ""}
Rows == {"rows1", "rows2"}

----------------------------------------------------------------------------
\* Python dict with insertion order, as used for DeepState.intent_ambiguous

HasKey(d, k) == \E i \in DOMAIN d : d[i].key = k

\* d[k] = v
DictSet(d, k, v) ==
    IF HasKey(d, k)
    THEN [i \in DOMAIN d |-> IF d[i].key = k THEN [key |-> k, value |-> v] ELSE d[i]]
    ELSE Append(d, [key |-> k, value |-> v])

\* a faulty variant of DictSetAll: every key receives the first value
RECURSIVE DictSetAll_head(_, _, _)
DictSetAll_head(d, keys, vals) ==
    IF keys = <<>> THEN d
    ELSE DictSetAll_head(DictSet(d, Head(keys), Head(vals)), Tail(keys), vals)

\* for i: d[keys[i]] = vals[i]
RECURSIVE DictSetAll(_, _, _)
DictSetAll(d, keys, vals) ==
    IF keys = <<>> THEN d
    ELSE DictSetAll(DictSet(d, Head(keys), Head(vals)), Tail(keys), Tail(vals))

IsUnresolved(e) == e.value = None

\* a faulty variant of get_user_question: every key, resolved or not
get_user_question_all_keys(d) == [i \in DOMAIN d |-> d[i].key]

\* query_analyze.get_user_question: the keys whose value is None, in dict order
get_user_question(d) ==
    LET u == SelectSeq(d, IsUnresolved) IN [i \in DOMAIN u |-> u[i].key]

----------------------------------------------------------------------------
\* Routers of the graph (src/sql_copilot.py)

\* a faulty variant of intent_path: the "other" test is lost
intent_path_no_other(it) == "query_analyze"

intent_path(it) == IF it = "other" THEN END ELSE "query_analyze"

\* a faulty variant of analyze_path_map: proceeds although a question is open
analyze_path_map_proceed(d) == "table_search"

\* a faulty variant of analyze_path_map: the run never leaves the clarification
analyze_path_map_stay(d) == "query_analyze"

analyze_path_map(d) ==
    IF get_user_question(d) # <<>> THEN "query_analyze" ELSE "table_search"

\* a faulty variant of fix_path: a failed execution goes back to the generator
fix_path_regenerate(qd, it) ==
    IF qd # "" THEN (IF it = "analyze" THEN "analyzer" ELSE END) ELSE "sql_coder"

fix_path(qd, it) ==
    IF qd # "" THEN (IF it = "analyze" THEN "analyzer" ELSE END) ELSE "sql_fix"

----------------------------------------------------------------------------
\* QueryIntentNode._parse_intent_result on the classifier texts of the model

Lower(text) == IF text = "Query." THEN "query." ELSE text
ContainsQuery(text) == text \in {"query", "query.", "a long reply about the query"}
ContainsAnalyze(text) == text \in {"analyze"}
ShorterThan20(text) == text # "a long reply about the query"

_parse_intent_result(result_text) ==
    LET l == Lower(result_text) IN
    IF l = "query" THEN [intent |-> "query", answer |-> None]
    ELSE IF l = "analyze" THEN [intent |-> "analyze", answer |-> None]
    ELSE IF ContainsQuery(l) /\ ShorterThan20(l) THEN [intent |-> "query", answer |-> None]
    ELSE IF ContainsAnalyze(l) /\ ShorterThan20(l) THEN [intent |-> "analyze", answer |-> None]
    ELSE [intent |-> "other", answer |-> result_text]

\* intent_map.get(result_text, "other label")
IntentLabel(result_text) ==
    IF result_text \in {"query", "analyze"} THEN result_text ELSE "other"

\* Python truthiness of an Optional[str]
Truthy(s) == s # None /\ s # ""

----------------------------------------------------------------------------
\* SqlFixNode.fix_sql, its counter and its ceiling

\* a faulty variant of IncrementCnt: the counter is left as it is
IncrementCnt_keep(c) == c

\* a faulty variant of IncrementCnt: counts two per attempt
IncrementCnt_twice(c) == c + 2

\* state.cnt += 1
IncrementCnt(c) == c + 1

\* a faulty variant of RetryLimitReached: the ceiling test is off by one
RetryLimitReached_ge(c) == c >= MaxAttempts

\* a faulty variant of RetryLimitReached: one attempt too many is let through
RetryLimitReached_late(c) == c > MaxAttempts + 1

\* if state.cnt > 10
RetryLimitReached(c) == c > MaxAttempts

----------------------------------------------------------------------------
\* process_chat's reading of the graph's result (src/app.py 113-138)
ProcessChatResult(ans, intr) ==
    IF ans # "" THEN "completed"
    ELSE IF intr THEN "interrupted"
    ELSE "error"

\* An event stream_chat yields (src/app.py 192-233, 237-241)
Event(type, node, content) == [type |-> type, node |-> node, content |-> content]

\* stream_chat 198-224: the update of a node is a dict of all channels, so the
\* content is that of the transcript's last entry (the answer when the
\* transcript is empty) and a chunk is yielded only for a non-empty content.
NodeEvents(ev, node, msgs, ans) ==
    LET content == IF msgs # <<>> THEN msgs[Len(msgs)].content ELSE ans
        name == IF msgs # <<>> THEN msgs[Len(msgs)].role ELSE node
    IN IF content # "" THEN Append(ev, Event("chunk", name, content)) ELSE ev

\* a faulty variant of ErrorEvent: the exception is swallowed without an event
ErrorEvent_swallowed(ev, e) == ev

\* stream_chat 235-241: except Exception as e: yield the error event
ErrorEvent(ev, e) == Append(ev, Event("error", "system", e))

\* stream_chat 226-241, after the loop over graph.stream: `"answer" in final_state`
\* raises TypeError for None (caught: an error event) and is false for the
\* tuple of an interrupt.
EndEvents(ev, fs, ans) ==
    IF fs = "None" THEN ErrorEvent(ev, "TypeError")
    ELSE IF fs = "update" /\ ans # "" THEN Append(ev, Event("complete", "system", ans))
    ELSE ev

\* how a call of stream_chat ended, read off its last event
StreamResult(ev) ==
    IF ev = <<>> THEN "ended"
    ELSE CASE ev[Len(ev)].type = "complete" -> "completed"
           [] ev[Len(ev)].type = "interrupt" -> "interrupted"
           [] ev[Len(ev)].type = "error" -> "error"
           [] OTHER -> "ended"

\* a faulty variant of IsBlank: only the empty string is rejected
IsBlank_empty_only(q) == q = ""

\* not query or not query.strip()
IsBlank(q) == q \in {"", " "}

Msg(role, content) == [role |-> role, content |-> content]

\* a faulty variant of messages_append: the list is replaced by the new message
messages_append_replace(msgs, m) == <<m>>

\* state.messages.append(QueryMessage(role=..., content=...))
messages_append(msgs, m) == Append(msgs, m)

----------------------------------------------------------------------------
\* The state after the module is loaded: an empty checkpointer, no run yet.
\* The web application (src/web_app.py) with its sessions and requests
Sessions == {"s1", "s2"}
ThreadIds == Sessions \cup {"default"}
Requests == 1..MaxRequests

\* a thread of the checkpointer: the sessions whose calls wrote it, and
\* whether it holds a pending interrupt
NoCheckpoint == [writers |-> {}, pending |-> FALSE]

\* a request: where its handler is, the session of its cookie, whether it
\* resumes, and the sessions whose writes it found in the thread it loaded
NoRequest == [pc |-> "idle", session |-> "none", resume |-> FALSE, loaded |-> {}]

\* the threads that call get_milvus_client, and a thread that has not called
\* yet: where it is, the instance it constructed and the one it was returned
Callers == 1..MaxCallers
\* client = None (instances are numbered from 1 in the order of construction)
NoClient == 0
NoCall == [pc |-> "idle", made |-> NoClient, got |-> NoClient]

InitThread ==
    /\ user_input = ""
    /\ intent_type = "other"
    /\ intent_ambiguous = <<>>
    /\ final_sql = ""
    /\ query_data = ""
    /\ answer = ""
    /\ cnt = 0
    /\ messages = <<>>
    /\ next = "none"
    /\ status = "idle"
    /\ outcome = "none"
    /\ question = ""
    /\ interrupted = FALSE
    /\ resume_values = <<>>
    /\ clarified = <<>>
    /\ suspended = <<>>
    /\ steps = 0
    /\ runs = 0
    /\ analyze_calls = 0
    /\ executed = {}
    /\ executions = 0
    /\ failed_execs = 0
    /\ repair_calls = 0
    /\ repairs_all_sql = TRUE
    /\ repair_state = "None"
    /\ entry_log = <<>>
    /\ events = <<>>
    /\ final_state = "None"
    /\ calls = 0
    /\ raised = FALSE
    /\ checkpoints = [t \in ThreadIds |-> NoCheckpoint]
    /\ session_states = [s \in Sessions |-> FALSE]
    /\ requests = [r \in Requests |-> NoRequest]
    /\ chat_history = [s \in Sessions |-> 0]
    /\ client = NoClient
    /\ constructed = 0
    /\ callers = [c \in Callers |-> NoCall]

\* a session served through process_chat (the command line's ask)
Init == api = "process_chat" /\ InitThread

\* a session served through stream_chat (the web application)
InitStream == api = "stream_chat" /\ InitThread

\* the bounds and the super-step budget of the session's entry point
\* another call may reach the graph (stream sessions are bounded by their calls)
CallAllowed == api = "stream_chat" => calls < MaxStreamCalls
Called == IF api = "stream_chat" THEN calls + 1 ELSE calls
\* the analysis call may list new concepts (a later call can answer the prompt)
MayAddAmbiguity ==
    IF api = "stream_chat" THEN calls < MaxStreamCalls
    ELSE analyze_calls + 1 < MaxAnalyze
Limit == IF api = "stream_chat" THEN StreamRecursionLimit ELSE RecursionLimit

\* The values of the thread's channels: the DeepState a node is called with
State ==
    [user_input |-> user_input, intent_type |-> intent_type,
     intent_ambiguous |-> intent_ambiguous,
     final_sql |-> final_sql, query_data |-> query_data, answer |-> answer,
     cnt |-> cnt, messages |-> messages]

\* a faulty variant of ResumedState: the resume call writes the channels of
\* initial_state as a call with a query does
ResumedState_initial(s) ==
    [s EXCEPT !.intent_type = "other", !.intent_ambiguous = <<>>, !.final_sql = "",
              !.answer = "", !.cnt = 0, !.messages = <<>>]

\* The channels after graph.invoke(Command(resume=value), config) read the
\* thread's checkpoint: the command carries a resume value and no channel write.
ResumedState(s) == s

\* a faulty variant of Running: the super-step budget is not enforced
Running_unbounded(node) == status = "running" /\ next = node

\* A node may run: graph.invoke is in progress, the cursor is at the node and
\* the super-step budget of this invoke is not used up.
Running(node) == status = "running" /\ next = node /\ steps < Limit

\* The node `node` completed: the router's decision becomes the cursor.
Routed(node, target) ==
    /\ next' = target
    /\ steps' = steps + 1
    /\ executed' = executed \cup {node}
    /\ events' = IF api = "stream_chat"
                 THEN NodeEvents(events, node, messages', answer') ELSE events
    /\ final_state' = IF api = "stream_chat" THEN "update" ELSE final_state
    /\ UNCHANGED <<user_input, status, outcome, question, interrupted, runs, api, calls, raised,
                   web_vars, milvus_vars>>

----------------------------------------------------------------------------
\* process_chat(query, ..., resume_input=None): a new run on the session's thread.
\* The input dict overwrites the channels it names; query_data is not among
\* them and keeps the value of the session's previous run.
StartRun ==
    /\ status # "running"
    /\ \E query \in Queries :
        IF IsBlank(query)
        THEN \* raise InvalidQueryError before the graph is invoked; stream_chat
             \* catches it and yields an error event
             /\ status' = "returned"
             /\ events' = IF api = "stream_chat"
                          THEN ErrorEvent(<<>>, "Query cannot be empty")
                          ELSE <<>>
             /\ outcome' = IF api = "stream_chat" THEN StreamResult(events')
                           ELSE "invalid_query"
             /\ final_state' = "None"
             /\ raised' = TRUE
             /\ UNCHANGED <<state_vars, history_vars, next, question, interrupted,
                            resume_values, clarified, suspended, steps, api, calls, web_vars, milvus_vars>>
        ELSE /\ api = "process_chat" => runs < MaxRuns
             /\ CallAllowed
             /\ calls' = Called
             /\ user_input' = query
             /\ intent_type' = "other"
             /\ intent_ambiguous' = <<>>
             /\ final_sql' = ""
             /\ answer' = ""
             /\ cnt' = 0
             /\ messages' = <<>>
             /\ UNCHANGED query_data
             /\ next' = "query_intent"
             /\ status' = "running"
             /\ steps' = 0
             /\ interrupted' = FALSE
             /\ resume_values' = <<>>
             /\ clarified' = <<>>
             /\ suspended' = <<>>
             /\ runs' = runs + 1
             /\ analyze_calls' = 0
             /\ executed' = {}
             /\ executions' = 0
             /\ failed_execs' = 0
             /\ repair_calls' = 0
             /\ repairs_all_sql' = TRUE
             /\ repair_state' = "None"
             /\ entry_log' = <<>>
             /\ outcome' = "none"
             /\ question' = ""
             /\ events' = <<>>
             /\ final_state' = "None"
             /\ raised' = FALSE
             /\ UNCHANGED <<api, web_vars, milvus_vars>>

\* process_chat(None, ..., resume_input=value) on a thread that holds a pending
\* interrupt: Command(resume=value) adds the value to the interrupted task's
\* resume list and the task (query_analyze) is executed again from its start.
\* (ResumeFinished is the resume of a thread whose graph reached END.)
Resume ==
    /\ status # "running"
    /\ interrupted
    /\ \E value \in ResumeInputs :
        resume_values' = Append(resume_values, value)
    /\ interrupted' = FALSE
    /\ status' = "running"
    /\ steps' = 0
    /\ outcome' = "none"
    /\ question' = ""
    /\ LET s == ResumedState(State) IN
        /\ user_input' = s.user_input
        /\ intent_type' = s.intent_type
        /\ intent_ambiguous' = s.intent_ambiguous
        /\ final_sql' = s.final_sql
        /\ query_data' = s.query_data
        /\ answer' = s.answer
        /\ cnt' = s.cnt
        /\ messages' = s.messages
    /\ events' = <<>>
    /\ final_state' = "None"
    /\ CallAllowed
    /\ calls' = Called
    /\ raised' = FALSE
    /\ UNCHANGED <<history_vars, next, clarified, suspended, api, web_vars, milvus_vars>>

\* process_chat / stream_chat with resume_input on a thread whose graph reached
\* END: no interrupt is pending, so the resume value reaches no task, no node
\* is scheduled and the channels keep their values; graph.invoke returns them,
\* graph.stream yields no update. (A resume of a thread without a checkpoint,
\* or of one that stopped at the recursion limit, is not part of this model.)
ResumeFinished ==
    /\ status # "running"
    /\ ~interrupted
    /\ next = END
    /\ status' = "running"
    /\ steps' = 0
    /\ outcome' = "none"
    /\ question' = ""
    /\ events' = <<>>
    /\ final_state' = "None"
    /\ CallAllowed
    /\ calls' = Called
    /\ raised' = FALSE
    /\ UNCHANGED <<state_vars, history_vars, next, interrupted, resume_values,
                   clarified, suspended, api, web_vars, milvus_vars>>

\* graph.invoke returned because the graph reached END (process_chat 113-138);
\* graph.stream is exhausted (stream_chat 226-233).
Return ==
    /\ status = "running"
    /\ next = END
    /\ status' = "returned"
    /\ events' = IF api = "stream_chat"
                 THEN EndEvents(events, final_state, answer) ELSE events
    /\ outcome' = IF api = "stream_chat" THEN StreamResult(events')
                  ELSE ProcessChatResult(answer, FALSE)
    /\ raised' = (api = "stream_chat" /\ final_state = "None")
    /\ UNCHANGED <<state_vars, history_vars, next, question, interrupted,
                   resume_values, clarified, suspended, steps, api, final_state, calls, web_vars, milvus_vars>>

\* graph.invoke raises GraphRecursionError: the budget of super-steps is used
\* up and the graph has not reached END; process_chat re-raises (140-142).
RaiseRecursion ==
    /\ status = "running"
    /\ next # END
    /\ steps >= Limit
    /\ status' = "returned"
    /\ events' = IF api = "stream_chat"
                 THEN ErrorEvent(events, "GraphRecursionError")
                 ELSE events
    /\ outcome' = IF api = "stream_chat" THEN StreamResult(events')
                  ELSE "recursion_error"
    /\ raised' = TRUE
    /\ UNCHANGED <<state_vars, history_vars, next, question, interrupted,
                   resume_values, clarified, suspended, steps, api, final_state, calls, web_vars, milvus_vars>>

\* The node at the cursor calls a collaborator in the present state: the
\* classifier, the schema lookup and the analysis model always; the field
\* search, the SQL generator and the report model unless the node is skipped;
\* the repair agent after a failed execution below the retry limit (the
\* exception of pd.read_sql itself is caught by fix_sql).
CallsCollaborator ==
    \/ next \in {"query_intent", "query_analyze"}
    \/ next \in {"table_search", "sql_coder", "analyzer"} /\ answer = ""
    \/ next = "sql_fix" /\ answer = "" /\ ~RetryLimitReached(IncrementCnt(cnt))

\* A collaborator call of the node at the cursor raises (parse_intent wraps it
\* in LLMServiceError, the other nodes let it pass): the node's changes are
\* dropped, graph.invoke / graph.stream raises; process_chat re-raises
\* (140-142), stream_chat yields an error event (235-241).
RaiseInNode ==
    /\ status = "running"
    /\ steps < Limit
    /\ CallsCollaborator
    /\ status' = "returned"
    /\ events' = IF api = "stream_chat"
                 THEN ErrorEvent(events, "collaborator error") ELSE events
    /\ outcome' = IF api = "stream_chat" THEN StreamResult(events')
                  ELSE "exception"
    /\ raised' = TRUE
    /\ UNCHANGED <<state_vars, history_vars, next, question, interrupted,
                   resume_values, clarified, suspended, steps, api, final_state, calls, web_vars, milvus_vars>>

----------------------------------------------------------------------------
\* Node query_intent: QueryIntentNode.parse_intent, then the router intent_path.
parse_intent ==
    /\ Running("query_intent")
    /\ \E result_text \in IntentTexts :
        LET r == _parse_intent_result(result_text) IN
        /\ messages' = messages_append(messages, Msg("route", IntentLabel(result_text)))
        /\ intent_type' = r.intent
        /\ answer' = IF r.intent = "other" /\ Truthy(r.answer) THEN r.answer ELSE answer
        /\ Routed("query_intent", intent_path(r.intent))
    /\ UNCHANGED <<intent_ambiguous, final_sql, query_data, cnt, resume_values,
                   clarified, suspended, analyze_calls, executions, failed_execs, repair_calls,
                   repairs_all_sql, repair_state, entry_log>>

\* number of entries whose value is None
NumUnresolved(d) == Cardinality({i \in DOMAIN d : d[i].value = None})

\* the last record of the log with the prompt p added
LogPrompt(log, p) ==
    [log EXCEPT ![Len(log)].prompts = Append(@, p)]

\* the last record of the log marked as a completed task
LogDone(log) == [log EXCEPT ![Len(log)].done = TRUE]

\* Node query_analyze: QueryAnalyzeNode.analyze_query, then analyze_path_map.
\* The node runs from its start with the state of the checkpoint. The i-th
\* interrupt() call returns the i-th resume value of the task when there is
\* one; the first call without a value raises GraphInterrupt: the node's
\* changes are dropped, the prompt goes to the caller and process_chat returns.
\* (get_table_schemas returns a dict or raises, so `schema is None` never holds.)
analyze_query ==
    /\ Running("query_analyze")
    /\ LET question_list == get_user_question(intent_ambiguous)
           \* interrupt() calls that return a value in this execution
           k == IF Len(resume_values) < Len(question_list)
                THEN Len(resume_values) ELSE Len(question_list)
           \* lines 46-51: state.intent_ambiguous[question] = updated, k times
           assigned == DictSetAll(intent_ambiguous, SubSeq(question_list, 1, k),
                                  SubSeq(resume_values, 1, k))
           log == IF resume_values = <<>>
                  THEN Append(entry_log, [n |-> NumUnresolved(intent_ambiguous),
                                          prompts |-> <<>>, done |-> FALSE])
                  ELSE entry_log
       IN
       IF Len(resume_values) < Len(question_list)
       THEN \* interrupt(...) raises
            /\ question' = question_list[Len(resume_values) + 1]
            /\ interrupted' = TRUE
            /\ status' = "returned"
            /\ events' = IF api = "stream_chat"
                         THEN Append(events, Event("interrupt", "system",
                                                   question_list[Len(resume_values) + 1]))
                         ELSE events
            /\ final_state' = IF api = "stream_chat" THEN "interrupt" ELSE final_state
            /\ outcome' = IF api = "stream_chat" THEN StreamResult(events')
                          ELSE ProcessChatResult(answer, TRUE)
            /\ UNCHANGED <<api, calls, raised, web_vars, milvus_vars>>
            /\ entry_log' = LogPrompt(log, question_list[Len(resume_values) + 1])
            /\ executed' = executed \cup {"query_analyze"}
            /\ clarified' = assigned
            /\ suspended' = <<State>>
            /\ UNCHANGED <<state_vars, next, resume_values, steps, runs, analyze_calls>>
       ELSE \* every question of the list has its value
            \E cannot_answer \in CannotAnswers :
            \E ambiguous \in (IF MayAddAmbiguity
                              THEN AmbiguousLists ELSE {<<>>}) :
            LET updated == DictSetAll(assigned, ambiguous,
                                      [i \in DOMAIN ambiguous |-> None])
            IN
            /\ clarified' = assigned
            /\ suspended' = <<>>
            /\ answer' = IF cannot_answer # "" THEN cannot_answer ELSE answer
            /\ messages' = messages_append(messages, Msg("analysis", "thought"))
            /\ intent_ambiguous' = updated
            /\ resume_values' = <<>>
            /\ analyze_calls' = analyze_calls + 1
            /\ entry_log' = LogDone(log)
            /\ Routed("query_analyze", analyze_path_map(updated))
            /\ UNCHANGED <<intent_type, final_sql, query_data, cnt>>
    /\ UNCHANGED <<executions, failed_execs, repair_calls, repairs_all_sql, repair_state>>

\* Node table_search: TableSearchNode.search, then the edge to sql_coder.
SearchResults == {"fields", "reply", "empty_reply", "bad_json", "bad_format"}

search ==
    /\ Running("table_search")
    /\ IF answer # ""
       THEN /\ messages' = messages_append(messages, Msg("search", ""))
            /\ UNCHANGED answer
       ELSE \E result \in SearchResults :
            /\ messages' = IF result = "fields"
                           THEN messages_append(messages, Msg("search", "columns"))
                           ELSE messages
            /\ answer' = CASE result = "fields" -> answer
                           [] result = "reply" -> "SEARCH_REPLY"
                           [] result = "empty_reply" -> ""
                           [] result = "bad_json" -> "SEARCH_PARSE_FAILED"
                           [] result = "bad_format" -> "SEARCH_BAD_FORMAT"
    /\ Routed("table_search", "sql_coder")
    /\ UNCHANGED <<intent_type, intent_ambiguous, final_sql, query_data, cnt,
                   resume_values, clarified, suspended, analyze_calls, executions, failed_execs,
                   repair_calls, repairs_all_sql, repair_state, entry_log>>

\* Node sql_coder: SqlCoderNode.code_sql, then the edge to sql_fix.
CoderTexts == {"sqlA", "no statement", ""}
HasSqlKeyword(res) == res = "sqlA"

code_sql ==
    /\ Running("sql_coder")
    /\ IF answer # ""
       THEN /\ messages' = messages_append(messages, Msg("coder", ""))
            /\ UNCHANGED <<answer, final_sql>>
       ELSE \E res \in CoderTexts :
            /\ messages' = messages_append(messages, Msg("coder", "sql block"))
            /\ IF res # "" /\ HasSqlKeyword(res)
               THEN final_sql' = res /\ UNCHANGED answer
               ELSE answer' = InvalidSqlMsg /\ UNCHANGED final_sql
    /\ Routed("sql_coder", "sql_fix")
    /\ UNCHANGED <<intent_type, intent_ambiguous, query_data, cnt,
                   resume_values, clarified, suspended, analyze_calls, executions, failed_execs,
                   repair_calls, repairs_all_sql, repair_state, entry_log>>

\* a faulty variant of AnswerOnSuccess: the result is not made the answer
AnswerOnSuccess_kept(it, rows, ans) == ans

\* fix_sql 33-36: state.answer after a successful execution returned `rows`
AnswerOnSuccess(it, rows, ans) == IF it = "query" THEN rows ELSE ans

\* Node sql_fix: SqlFixNode.fix_sql, then the router fix_path.
\* Executing -> Succeeded | (Repairing -> Repaired | GaveUp) | Exhausted.
\* ("sql": "[sql]" with a statement; "empty_sql": "[sql]" with nothing after it)
RepairTexts == {"sql", "empty_sql", "reply", "empty_reply", "other"}
\* "[sql]" in result_text
HasSqlTag(result) == result \in {"sql", "empty_sql"}
\* result_text[result_text.index("[sql]"):].replace("[sql]", "").strip()
FixedSql(result) == IF result = "sql" THEN "sqlB" ELSE ""

fix_sql ==
    /\ Running("sql_fix")
    /\ IF answer # ""
       THEN \* lines 21-23: skipped, one empty transcript entry
            /\ messages' = messages_append(messages, Msg(<<"fix", cnt>>, ""))
            /\ repair_state' = "Skipped"
            /\ UNCHANGED <<answer, final_sql, query_data, cnt, executions,
                           failed_execs, repair_calls, repairs_all_sql>>
            /\ Routed("sql_fix", fix_path(query_data, intent_type))
       ELSE LET c == IncrementCnt(cnt) IN
            /\ cnt' = c
            /\ executions' = executions + 1
            /\ \/ \* pd.read_sql succeeds (an empty statement is never executable)
                  \E rows \in Rows :
                  /\ final_sql # ""
                  /\ query_data' = rows
                  /\ answer' = AnswerOnSuccess(intent_type, rows, answer)
                  /\ repair_state' = "Succeeded"
                  /\ UNCHANGED <<final_sql, messages, failed_execs, repair_calls,
                                 repairs_all_sql>>
                  /\ Routed("sql_fix", fix_path(rows, intent_type))
               \/ \* pd.read_sql raises, the retry limit is reached
                  /\ RetryLimitReached(c)
                  /\ answer' = ExhaustionMsg
                  /\ failed_execs' = failed_execs + 1
                  /\ repair_state' = "Exhausted"
                  /\ UNCHANGED <<final_sql, query_data, messages, repair_calls,
                                 repairs_all_sql>>
                  /\ Routed("sql_fix", fix_path(query_data, intent_type))
               \/ \* pd.read_sql raises, the repair agent is invoked
                  /\ ~RetryLimitReached(c)
                  /\ failed_execs' = failed_execs + 1
                  /\ repair_calls' = repair_calls + 1
                  /\ messages' = messages_append(messages, Msg(<<"fix", c>>, "sql and error"))
                  /\ \E result \in RepairTexts :
                      /\ final_sql' = IF HasSqlTag(result) THEN FixedSql(result) ELSE final_sql
                      /\ repairs_all_sql' = (repairs_all_sql /\ HasSqlTag(result))
                      /\ answer' = CASE HasSqlTag(result) -> answer
                                     [] result = "reply" -> "REPAIR_REPLY"
                                     [] result = "empty_reply" -> ""
                                     [] result = "other" -> "REPAIR_FAILED"
                      /\ repair_state' = CASE HasSqlTag(result) -> "Repaired"
                                           [] result = "empty_reply" -> "EmptyReply"
                                           [] OTHER -> "GaveUp"
                  /\ UNCHANGED query_data
                  /\ Routed("sql_fix", fix_path(query_data, intent_type))
    /\ UNCHANGED <<intent_type, intent_ambiguous, resume_values, clarified, suspended,
                   analyze_calls, entry_log>>

\* Node analyzer: AnalyzeDataNode.analyze_data, the graph's finish point.
Reports == {"report", ""}

analyze_data ==
    /\ Running("analyzer")
    /\ IF answer # ""
       THEN /\ messages' = messages_append(messages, Msg("report", ""))
            /\ UNCHANGED answer
       ELSE /\ \E result \in Reports : answer' = result
            /\ UNCHANGED messages
    /\ Routed("analyzer", END)
    /\ UNCHANGED <<intent_type, intent_ambiguous, final_sql, query_data, cnt,
                   resume_values, clarified, suspended, analyze_calls, executions, failed_execs,
                   repair_calls, repairs_all_sql, repair_state, entry_log>>

----------------------------------------------------------------------------
\* The process exits and starts again. The checkpointer is an InMemorySaver
\* created at import time and session_states is a module-level dict: both are
\* memory of the process, so the new process holds neither a checkpoint nor a
\* waiting flag for any session.
Restart ==
    /\ status # "idle"
    /\ user_input' = ""
    /\ intent_type' = "other"
    /\ intent_ambiguous' = <<>>
    /\ final_sql' = ""
    /\ query_data' = ""
    /\ answer' = ""
    /\ cnt' = 0
    /\ messages' = <<>>
    /\ next' = "none"
    /\ status' = "idle"
    /\ outcome' = "none"
    /\ question' = ""
    /\ interrupted' = FALSE
    /\ resume_values' = <<>>
    /\ clarified' = <<>>
    /\ suspended' = <<>>
    /\ steps' = 0
    /\ runs' = 0
    /\ analyze_calls' = 0
    /\ executed' = {}
    /\ executions' = 0
    /\ failed_execs' = 0
    /\ repair_calls' = 0
    /\ repairs_all_sql' = TRUE
    /\ repair_state' = "None"
    /\ entry_log' = <<>>
    /\ events' = <<>>
    /\ final_state' = "None"
    /\ calls' = 0
    /\ raised' = FALSE
    /\ checkpoints' = [t \in ThreadIds |-> NoCheckpoint]
    /\ session_states' = [s \in Sessions |-> FALSE]
    /\ requests' = [r \in Requests |-> NoRequest]
    /\ chat_history' = [s \in Sessions |-> 0]
    /\ client' = NoClient
    /\ constructed' = 0
    /\ callers' = [c \in Callers |-> NoCall]
    /\ UNCHANGED api

Next ==
    \/ StartRun
    \/ Resume
    \/ ResumeFinished
    \/ parse_intent
    \/ analyze_query
    \/ search
    \/ code_sql
    \/ fix_sql
    \/ analyze_data
    \/ Return
    \/ RaiseRecursion
    \/ RaiseInNode
    \/ Restart

Spec == Init /\ [][Next]_vars

\* the same thread served through stream_chat
SpecStream == InitStream /\ [][Next]_vars

----------------------------------------------------------------------------
\* The web application: requests of several sessions served by concurrent
\* handler threads that share the checkpointer and session_states. A call of
\* stream_chat is seen here from outside: it loads and writes the thread of
\* its session when it begins and when it ends.

thread_vars == <<state_vars, history_vars, next, status, outcome, question, interrupted,
                 resume_values, clarified, suspended, call_vars, steps>>

\* a faulty variant of thread_id: the session id is not passed on and every
\* call runs on the thread of the default session
thread_id_default(session_id) == "default"

\* config = {"configurable": {"thread_id": session_id}, ...}
thread_id(session_id) == session_id

\* chat_stream 39-75: the handler reads the message and the session's
\* waiting_for_input flag, clears the flag when it is set and decides whether
\* the message is a query or a resume value; an empty message is answered 400.
Receive(r) ==
    /\ requests[r].pc = "idle"
    /\ \E s \in Sessions, empty \in BOOLEAN :
        IF empty
        THEN /\ requests' = [requests EXCEPT ![r] = [@ EXCEPT !.pc = "done", !.session = s]]
             /\ UNCHANGED <<session_states, chat_history>>
        ELSE /\ requests' = [requests EXCEPT ![r] =
                                [@ EXCEPT !.pc = "decided", !.session = s,
                                          !.resume = session_states[s]]]
             /\ session_states' = [session_states EXCEPT ![s] = FALSE]
             /\ chat_history' = [chat_history EXCEPT ![s] = @ + 1]
    /\ UNCHANGED <<checkpoints, thread_vars, milvus_vars>>

\* generate() 80-86 enters stream_chat, which calls graph.stream on the thread
\* of the session (app.py 154-187). A query is written to the thread and
\* discards a pending interrupt; a resume value continues a pending interrupt;
\* without one no node runs and the call ends at once with an error event.
Begin(r) ==
    /\ requests[r].pc = "decided"
    /\ LET s == requests[r].session
           t == thread_id(s)
       IN IF requests[r].resume /\ ~checkpoints[t].pending
          THEN /\ requests' = [requests EXCEPT ![r] =
                                  [@ EXCEPT !.pc = "done", !.loaded = checkpoints[t].writers]]
               /\ UNCHANGED checkpoints
          ELSE /\ requests' = [requests EXCEPT ![r] =
                                  [@ EXCEPT !.pc = "streaming",
                                            !.loaded = checkpoints[t].writers]]
               /\ checkpoints' = [checkpoints EXCEPT ![t] =
                                     [writers |-> @.writers \cup {s}, pending |-> FALSE]]
    /\ UNCHANGED <<session_states, chat_history, thread_vars, milvus_vars>>

\* The graph of the call stops: at an interrupt, which the handler records in
\* waiting_for_input (web_app.py 87-88), or otherwise (END, an exception).
Finish(r) ==
    /\ requests[r].pc = "streaming"
    /\ LET s == requests[r].session
           t == thread_id(s)
       IN \E interrupt \in BOOLEAN :
          /\ checkpoints' = [checkpoints EXCEPT ![t] =
                                [writers |-> @.writers \cup {s}, pending |-> interrupt]]
          /\ session_states' = IF interrupt
                               THEN [session_states EXCEPT ![s] = TRUE]
                               ELSE session_states
    /\ requests' = [requests EXCEPT ![r] = [@ EXCEPT !.pc = "done"]]
    /\ UNCHANGED <<chat_history, thread_vars, milvus_vars>>

\* clear_chat_history (web_app.py 114-123): session['chat_history'] = []. The
\* handler touches neither session_states nor the checkpointer, and the
\* session keeps its session_id.
Clear(s) ==
    /\ chat_history[s] > 0
    /\ chat_history' = [chat_history EXCEPT ![s] = 0]
    /\ UNCHANGED <<checkpoints, session_states, requests, thread_vars, milvus_vars>>

NextWeb ==
    \/ \E r \in Requests : Receive(r) \/ Begin(r) \/ Finish(r)
    \/ \E s \in Sessions : Clear(s)

SpecWeb == InitStream /\ [][NextWeb]_vars

----------------------------------------------------------------------------
\* get_milvus_client (src/data/knowledge_manager.py 14-21), called by the
\* handler threads of the web application (app.run is threaded). The function
\* takes no lock, so its steps interleave: the test of the global, the
\* construction, the store to the global and the read of the return statement.

\* if client is None
ClientIsNone(c) == c = NoClient

\* a thread enters get_milvus_client
CallGet(c) ==
    /\ callers[c].pc = "idle"
    /\ callers' = [callers EXCEPT ![c].pc = "test"]
    /\ UNCHANGED <<client, constructed, thread_vars, web_vars>>

\* if client is None:
TestClient(c) ==
    /\ callers[c].pc = "test"
    /\ callers' = [callers EXCEPT ![c].pc =
                      IF ClientIsNone(client) THEN "construct" ELSE "return"]
    /\ UNCHANGED <<client, constructed, thread_vars, web_vars>>

\* MilvusClient(db_path): the right-hand side of the assignment
ConstructClient(c) ==
    /\ callers[c].pc = "construct"
    /\ constructed' = constructed + 1
    /\ callers' = [callers EXCEPT ![c].pc = "store", ![c].made = constructed + 1]
    /\ UNCHANGED <<client, thread_vars, web_vars>>

\* client = <the new instance>
StoreClient(c) ==
    /\ callers[c].pc = "store"
    /\ client' = callers[c].made
    /\ callers' = [callers EXCEPT ![c].pc = "return"]
    /\ UNCHANGED <<constructed, thread_vars, web_vars>>

\* return client
ReturnClient(c) ==
    /\ callers[c].pc = "return"
    /\ callers' = [callers EXCEPT ![c].pc = "done", ![c].got = client]
    /\ UNCHANGED <<client, constructed, thread_vars, web_vars>>

NextMilvus ==
    \E c \in Callers :
        \/ CallGet(c)
        \/ TestClient(c)
        \/ ConstructClient(c)
        \/ StoreClient(c)
        \/ ReturnClient(c)

SpecMilvus == InitStream /\ [][NextMilvus]_vars

----------------------------------------------------------------------------
\* Properties

PastAnalyze == {"table_search", "sql_coder", "sql_fix", "analyzer"}

\* a call of process_chat that ran the graph has returned to its caller
CallReturned == status = "returned" /\ outcome # "invalid_query"

RECURSIVE SumPrompts(_, _)
\* prompts raised by the tasks i.. of the log
SumPrompts(log, i) ==
    IF i > Len(log) THEN 0 ELSE Len(log[i].prompts) + SumPrompts(log, i + 1)

Distinct(seq) == \A i, j \in DOMAIN seq : i # j => seq[i] # seq[j]

\* C1 (as claimed): attempt_count stays between 0 and 10, also in the state
\* in which fix_sql sets the exhaustion message.
C1_CntAtMostTen ==
    /\ cnt \in 0..MaxAttempts
    /\ (repair_state = "Exhausted" => cnt <= MaxAttempts)

\* C1 (amended): attempt_count stays between 0 and 11, and it is exactly 11 in
\* the state in which fix_sql sets the exhaustion message, because the test
\* cnt > 10 is made after the increment.
C1_CntAtMostEleven ==
    /\ cnt \in 0..(MaxAttempts + 1)
    /\ (repair_state = "Exhausted" => cnt = MaxAttempts + 1 /\ answer = ExhaustionMsg)

C1_Witness == repair_state = "Exhausted" /\ cnt = MaxAttempts + 1

\* C2: when fix_sql ends in GaveUp (the repair agent replied with an answer)
\* or in Exhausted (exhaustion message set), the router's decision after
\* sql_fix is END.
C2_TerminalAfterGiveUp ==
    repair_state \in {"GaveUp", "Exhausted"} => next = END

\* C3: when ten consecutive executions have failed, each earlier one repaired
\* with corrected SQL, the call returns completed with the exhaustion message,
\* attempt_count is 10 and the repair agent was called at most ten times.
C3_TenFailuresExhaust ==
    (CallReturned /\ failed_execs >= MaxAttempts /\ repairs_all_sql)
        => /\ outcome = "completed"
           /\ answer = ExhaustionMsg
           /\ cnt = MaxAttempts
           /\ repair_calls <= MaxAttempts

\* C4: the repair agent is invoked at most 10 times in a run: every failed
\* execution up to the tenth is followed by one repair call, and an eleventh
\* failed execution sets the exhaustion message without a repair call.
C4_RepairCallsBounded ==
    /\ repair_calls <= MaxAttempts
    /\ repair_calls = (IF failed_execs <= MaxAttempts THEN failed_execs ELSE MaxAttempts)
    /\ (failed_execs > MaxAttempts => repair_state \in {"Exhausted", "Skipped"}
                                       /\ answer = ExhaustionMsg)

C4_Witness ==
    failed_execs = MaxAttempts + 1 /\ repair_calls = MaxAttempts /\ answer = ExhaustionMsg

\* C5 (as claimed): attempt_count counts the failed executions, so after a
\* successful execution it equals the number of failures before it.
C5_CntCountsFailures ==
    repair_state = "Succeeded" => cnt = failed_execs

\* C5 (amended): attempt_count is incremented before every execution, so it
\* always equals the number of executions of the run: after a successful
\* execution it is the number of failures before it plus one.
C5_CntCountsExecutions ==
    /\ cnt = executions
    /\ (repair_state = "Succeeded" => cnt = failed_execs + 1)

C5_Witness ==
    /\ repair_state = "Succeeded"
    /\ failed_execs = 1
    /\ cnt = 2
    /\ outcome = "completed"

\* C6: once a stage has set a non-empty answer, the call ends with outcome
\* completed (it does not end in an exception).
C6_AnswerLeadsToCompleted ==
    (CallReturned /\ answer # "") => outcome = "completed"

\* C7: within a run, a non-empty answer is never changed by a later stage.
C7_AnswerNeverOverwritten ==
    [][(answer # "" /\ runs' = runs) => answer' = answer]_vars

\* C8: when query_intent has classified the input as other, no other stage is
\* executed in the run and the router's decision is END.
C8_OtherTerminates ==
    ("query_intent" \in executed /\ intent_type = "other")
        => (executed = {"query_intent"} /\ next = END)

C8_Witness ==
    /\ executed = {"query_intent"}
    /\ intent_type = "other"
    /\ status = "returned"
    /\ outcome = "completed"

\* C9: while a stage after query_analyze is the cursor or has run in the
\* current run, every entry of intent_ambiguous holds a value the user gave.
C9_NoUnresolvedPastAnalyze ==
    (next \in PastAnalyze \/ executed \cap PastAnalyze # {})
        => \A i \in DOMAIN intent_ambiguous :
               intent_ambiguous[i].value \in ResumeInputs

C9_Witness ==
    /\ "table_search" \in executed
    /\ Len(intent_ambiguous) = 2

\* C10 (as claimed, for the entries with N >= 1): when query_analyze is
\* entered with N unresolved entries, the run suspends exactly N times from
\* there until table_search is the cursor, with pairwise distinct prompts.
C10_ExactlyNSuspensions ==
    next = "table_search" =>
        \A i \in DOMAIN entry_log :
            entry_log[i].n >= 1 => SumPrompts(entry_log, i) = entry_log[i].n

\* C10 (amended): each task of query_analyze entered with N unresolved entries
\* suspends at most N times, exactly N times before it completes, once per
\* unresolved entry and with pairwise distinct prompts, each prompt naming an
\* entry that is unresolved; the suspensions before table_search are those
\* of all the tasks of query_analyze together.
C10_SuspendsOncePerEntry ==
    /\ \A i \in DOMAIN entry_log :
          /\ Len(entry_log[i].prompts) <= entry_log[i].n
          /\ entry_log[i].done => Len(entry_log[i].prompts) = entry_log[i].n
          /\ Distinct(entry_log[i].prompts)
          /\ i < Len(entry_log) => entry_log[i].done
    /\ interrupted =>
          \E i \in DOMAIN intent_ambiguous :
              /\ intent_ambiguous[i].key = question
              /\ intent_ambiguous[i].value = None
    /\ next = "table_search" => \A i \in DOMAIN entry_log : entry_log[i].done

C10_Witness ==
    /\ next = "table_search"
    /\ \E i \in DOMAIN entry_log :
          /\ entry_log[i].n = 2
          /\ entry_log[i].done
          /\ Len(entry_log[i].prompts) = 2
----------------------------------------------------------------------------
\* the value stored under key k in the dict d
ValueOfKey(d, k) == d[CHOOSE i \in DOMAIN d : d[i].key = k].value

C19_OneRunPerSession ==
    \A r1, r2 \in Requests :
        (r1 # r2 /\ requests[r1].pc = "streaming" /\ requests[r2].pc = "streaming")
            => requests[r1].session # requests[r2].session

C21_ExceptionsBecomeOneErrorEvent ==
    /\ raised => /\ status = "returned"
                 /\ outcome = "error"
                 /\ events # <<>>
                 /\ events[Len(events)].type = "error"
    /\ \A i \in DOMAIN events :
          events[i].type = "error"
              => /\ i = Len(events)
                 /\ raised
                 /\ \A j \in DOMAIN events : events[j].type # "complete"

\* the SQL generator failed after two stages had reported their progress
C21_Witness ==
    /\ raised
    /\ next = "sql_coder"
    /\ Len(events) = 3
    /\ events[1].type = "chunk"
    /\ events[3].content = "collaborator error"
\* C22: a call whose query is empty or only whitespace is rejected with an
\* invalid-query error before any stage runs: a run only ever starts with a
\* query that has a non-blank character, and the rejected call leaves the
\* session's channels, cursor, pending interrupt and executed stages as they were.
C22_BlankQueryRejected ==
    [][/\ runs' > runs => (user_input' # "" /\ user_input' # " ")
       /\ (status' = "returned" /\ outcome' = "invalid_query")
             => /\ State' = State
                /\ next' = next
                /\ executed' = executed
                /\ steps' = steps
                /\ interrupted' = interrupted
                /\ runs' = runs]_vars

\* a blank query was rejected while the session's run was suspended, and the
\* run is still suspended at the same prompt
C22_Witness ==
    /\ status = "returned" /\ outcome = "invalid_query" /\ raised
    /\ runs = 1 /\ interrupted /\ next = "query_analyze"
    /\ user_input = "show sales"

\* C23: a suspended session survives a restart of the process: the restarted
\* process still holds the pending interrupt, the channel values saved at the
\* suspension and the cursor at the suspended stage.
C23_SuspensionSurvivesRestart ==
    [][(interrupted /\ status' = "idle")
          => (interrupted' /\ State' = State /\ next' = next)]_vars

\* C24: an ambiguity entry, once resolved, is kept for the rest of the run:
\* every step of the run leaves a resolved topic in the mapping with its value,
\* and an execution of query_analyze that stored resume values under their
\* topics and went on to the analysis call returns a mapping that still holds
\* each of them.
C24_ResolvedEntryKept ==
    [][runs' = runs =>
          /\ \A i \in DOMAIN intent_ambiguous :
                ~IsUnresolved(intent_ambiguous[i])
                    => /\ HasKey(intent_ambiguous', intent_ambiguous[i].key)
                       /\ ValueOfKey(intent_ambiguous', intent_ambiguous[i].key)
                              = intent_ambiguous[i].value
          /\ analyze_calls' > analyze_calls =>
                \A i \in DOMAIN clarified' :
                    ~IsUnresolved(clarified'[i])
                        => /\ HasKey(intent_ambiguous', clarified'[i].key)
                           /\ ValueOfKey(intent_ambiguous', clarified'[i].key)
                                  = clarified'[i].value]_vars

IsPrefix(a, b) == Len(a) <= Len(b) /\ SubSeq(b, 1, Len(a)) = a

\* C25: the transcript is append-only within a run: every step of a run (a
\* stage execution, a suspension, a resume, the end of a call) leaves the
\* transcript it found as a prefix of the transcript it leaves.
C25_TranscriptAppendOnly ==
    [][runs' = runs => IsPrefix(messages, messages')]_vars

\* the repair stage appended its message to the four messages of the stages before it
C25_Witness ==
    /\ Len(messages) = 5
    /\ messages[5].content = "sql and error"
    /\ messages[4].content = "sql block"
    /\ status = "running"

\* What process_chat does with the result of the same segment (app.py 113-142):
\* an exception of the graph is raised again; otherwise the result is read as
\* ProcessChatResult reads it, and the status "error" counts as a failure. (The
\* TypeError of stream_chat's final test is raised outside the graph.)
ProcessChatOutcome ==
    IF raised /\ events[Len(events)].content # "TypeError" THEN "fails"
    ELSE IF ProcessChatResult(answer, interrupted) = "error" THEN "fails"
    ELSE ProcessChatResult(answer, interrupted)

\* C26: a call of stream_chat ends in the kind of outcome process_chat has for
\* the same segment: with a complete event exactly when process_chat returns
\* completed, with an interrupt event exactly when it returns interrupted and
\* with an error event exactly when it fails.
C26_StreamMatchesProcessChat ==
    (api = "stream_chat" /\ status = "returned")
        => /\ (outcome = "completed") <=> (ProcessChatOutcome = "completed")
           /\ (outcome = "interrupted") <=> (ProcessChatOutcome = "interrupted")
           /\ (outcome = "error") <=> (ProcessChatOutcome = "fails")

\* C27: while a call of stream_chat is in progress it has yielded exactly one
\* progress (chunk) event for every stage executed in its segment so far,
\* skipped stages included.
C27_OneChunkPerStage ==
    (api = "stream_chat" /\ status = "running")
        => Cardinality({i \in DOMAIN events : events[i].type = "chunk"}) = steps

\* C28: a stage entered with a non-empty answer is short-circuited: its
\* execution calls no collaborator (no analysis call, no SQL execution, no
\* repair call) and changes no field of the state other than the transcript.
C28_AnswerShortCircuitsEveryStage ==
    [][(status = "running" /\ answer # "" /\ steps' = steps + 1)
          => /\ user_input' = user_input
             /\ intent_type' = intent_type
             /\ intent_ambiguous' = intent_ambiguous
             /\ final_sql' = final_sql
             /\ query_data' = query_data
             /\ answer' = answer
             /\ cnt' = cnt
             /\ analyze_calls' = analyze_calls
             /\ executions' = executions
             /\ repair_calls' = repair_calls]_vars

\* the position of a stage in the topology
StageOrder(n) ==
    CASE n = "query_intent" -> 1
      [] n = "query_analyze" -> 2
      [] n = "table_search" -> 3
      [] n = "sql_coder" -> 4
      [] n = "sql_fix" -> 5
      [] n = "analyzer" -> 6

\* the step is an execution of the stage at the cursor (completed or suspended)
StageExecutes ==
    /\ status = "running"
    /\ steps' = steps + 1 \/ (interrupted' /\ ~interrupted)

\* C29: the stages of a run execute in the order of the topology: a stage
\* executes only when no stage after it has executed in the run and every
\* stage before it has; query_intent, table_search, sql_coder and analyzer
\* execute at most once, query_analyze and sql_fix may execute again.
C29_StagesInTopologyOrder ==
    [][StageExecutes =>
          /\ \A m \in executed : StageOrder(m) <= StageOrder(next)
          /\ \A k \in 1..(StageOrder(next) - 1) :
                \E m \in executed : StageOrder(m) = k
          /\ next \in {"query_intent", "table_search", "sql_coder", "analyzer"}
                => next \notin executed
          /\ executed' = executed \cup {next}]_vars

\* a run that executed all six stages, query_analyze and sql_fix more than once
C29_Witness ==
    /\ executed = {"query_intent", "query_analyze", "table_search", "sql_coder",
                   "sql_fix", "analyzer"}
    /\ analyze_calls >= 2
    /\ executions >= 2
    /\ status = "returned"

\* C30: only query_analyze suspends a run, and the prompt of a suspension is
\* a topic that the state saved at the suspension holds with no value; an
\* execution of query_analyze after a resume that leaves no unresolved entry
\* is followed by table_search.
C30_SuspendAndProceed ==
    [][/\ (interrupted' /\ ~interrupted)
           => /\ next = "query_analyze" /\ next' = "query_analyze"
              /\ HasKey(intent_ambiguous', question')
              /\ ValueOfKey(intent_ambiguous', question') = None
              /\ suspended' = <<State'>>
       /\ (/\ status = "running" /\ next = "query_analyze" /\ steps' = steps + 1
           /\ resume_values # <<>>
           /\ get_user_question(intent_ambiguous') = <<>>)
           => next' = "table_search"
       /\ interrupted => next = "query_analyze"]_vars

\* the run was suspended on t1, resumed with v1 and went on to table_search
C30_Witness ==
    /\ next = "table_search"
    /\ status = "running"
    /\ intent_ambiguous = <<[key |-> "t1", value |-> "v1"]>>
    /\ Len(entry_log) >= 1
    /\ entry_log[Len(entry_log)].prompts = <<"t1">>

\* C31: whenever a run ends through the edge for intent other, answer is
\* non-empty, so the call returns completed and never the error 'Unexpected
\* workflow state'.
C31_OtherEndsWithAnswer ==
    (api = "process_chat" /\ status = "returned" /\ ~raised
        /\ executed = {"query_intent"} /\ intent_type = "other" /\ next = END)
        => (answer # "" /\ outcome = "completed")

\* C32: clearing a session destroys its run: after the clear the session
\* waits for no clarification and its thread holds no pending interrupt, so
\* the next message starts a run and is not delivered as a resume value.
C32_ClearDestroysRun ==
    [][\A s \in Sessions :
         (chat_history[s] > 0 /\ chat_history'[s] = 0)
            => /\ ~session_states'[s]
               /\ ~checkpoints'[thread_id(s)].pending]_vars

\* C33: under every interleaving of concurrent first calls of
\* get_milvus_client at most one MilvusClient is constructed and every caller
\* that returned holds the same instance.
C33_ClientCreatedOnce ==
    /\ constructed <= 1
    /\ \A c1, c2 \in Callers :
          (callers[c1].pc = "done" /\ callers[c2].pc = "done")
              => callers[c1].got = callers[c2].got

\* C34: a call with a query starts its run with every field of the state
\* other than the input at its default, in the first and in every later run
\* of the session; in particular query_data is empty.
C34_NewRunStartsFromDefaults ==
    [][runs' > runs
          => /\ intent_type' = "other"
             /\ intent_ambiguous' = <<>>
             /\ final_sql' = ""
             /\ query_data' = ""
             /\ answer' = ""
             /\ cnt' = 0
             /\ messages' = <<>>]_vars

\* C35: whenever no request is in flight, waiting_for_input of a session is
\* true exactly when the thread of the session holds a pending interrupt, so a
\* message is delivered as a resume value exactly when the run is suspended.
C35_WaitingIffSuspended ==
    (\A r \in Requests : requests[r].pc \in {"idle", "done"})
        => \A s \in Sessions : session_states[s] <=> checkpoints[thread_id(s)].pending

TerminalEvents == {"complete", "interrupt", "error"}

\* C36: the events of a call of stream_chat that has ended are not empty, the
\* last one is a complete, interrupt or error event and no event before the
\* last is of one of these three types.
C36_StreamEndsWithTerminalEvent ==
    (api = "stream_chat" /\ status = "returned")
        => /\ events # <<>>
           /\ events[Len(events)].type \in TerminalEvents
           /\ \A i \in 1..(Len(events) - 1) : events[i].type \notin TerminalEvents

C38_ExecutesNonEmptySql ==
    [][(executions' # executions /\ runs' = runs) => final_sql # ""]_vars

====
